---- MODULE Spec2Model ----
(***************************************************************************)
(* GitLabUploader (src/main.py): the upload worker thread                  *)
(* (UploadWorker.run) and the window's upload handler                      *)
(* (UploadApp.upload_files, select_directory) as a state machine.          *)
(*                                                                         *)
(* Strings that the code slices (paths) are sequences of one-character     *)
(* strings.  Every call that leaves the process (the GitLab API, the file  *)
(* system) is recorded, with its outcome, in the calling thread's trace,   *)
(* next to the signals the thread emits.                                   *)
(***************************************************************************)
EXTENDS Naturals, Integers, Sequences, FiniteSets

\* ------------------------------------------------------------------ bounds
\* Most files a directory tree holds in a worker session (Spec).
MaxFiles == 3
\* Most files a directory tree holds when the whole window runs (SpecApp).
MaxFilesApp == 1
\* Most workers the window starts (SpecApp).
MaxSessions == 2
\* Most times the user opens the directory dialog (SpecApp).
MaxDialogs == 1

\* ------------------------------------------------------------------ paths
SLASH == "/"
BSL == "\\"

\* Names of directory entries: two files and one sub-directory.
NameA == <<"a", "1">>
NameB == <<"b">>
NameS == <<"s">>

\* The files a tree may hold, as component lists below the root, in the
\* order os.walk meets them (top-down: the root's files, then the
\* sub-directory's).
AllRel == << <<NameA>>, <<NameB>>, <<NameS, NameA>>, <<NameS, NameB>> >>

RECURSIVE PickRel(_, _)
PickRel(S, i) ==
    IF i > Len(AllRel) THEN <<>>
    ELSE (IF i \in S THEN <<AllRel[i]>> ELSE <<>>) \o PickRel(S, i + 1)

Trees(max) ==
    { PickRel(S, 1) : S \in { T \in SUBSET (1..Len(AllRel)) : Cardinality(T) <= max } }

OsNames == {"posix", "nt"}

\* What QFileDialog.getExistingDirectory returns for a chosen directory:
\* forward slashes, no trailing separator except for a file-system or drive
\* root.
Roots(os) ==
    IF os = "posix" THEN { <<"/">>, <<"/", "r">> }
    ELSE { <<"C", ":", "/">>, <<"C", ":", "/", "r">> }

\* os.sep
Sep(os) == IF os = "posix" THEN SLASH ELSE BSL

EndsWithSep(os, a) ==
    /\ Len(a) > 0
    /\ \/ a[Len(a)] = SLASH
       \/ os = "nt" /\ a[Len(a)] = BSL

\* os.path.join(a, b) for a relative, drive-less b: posixpath.join adds
\* "/" unless a is empty or ends with "/"; ntpath.join adds "\" unless a is
\* empty or ends with "/" or "\".
PathJoin(os, a, b) ==
    IF Len(a) = 0 \/ EndsWithSep(os, a) THEN a \o b ELSE a \o <<Sep(os)>> \o b

\* The absolute path os.walk + os.path.join build for the file with
\* components rel below top: join(join(top, dir), file).
RECURSIVE FullPath(_, _, _)
FullPath(os, top, rel) ==
    IF Len(rel) = 0 THEN top
    ELSE FullPath(os, PathJoin(os, top, Head(rel)), Tail(rel))

\* files_to_upload after the os.walk loop.
WalkFiles(os, top, tr) == [i \in 1..Len(tr) |-> FullPath(os, top, tr[i])]

\* s[n:]
SliceFrom(s, n) == IF n >= Len(s) THEN <<>> ELSE SubSeq(s, n + 1, Len(s))

\* s.replace("\\", "/")
ReplaceBackslash(s) == [i \in 1..Len(s) |-> IF s[i] = BSL THEN SLASH ELSE s[i]]

\* parsed_file_path = file_full_path[len(self.file_path) + 1:].replace("\\", "/")
ParsedFilePath(full, file_path) ==
    ReplaceBackslash(SliceFrom(full, Len(file_path) + 1))

\* ------------------------------------------------- progress (float arithmetic)
\* A positive double is [f |-> the FracLimbs limbs of LimbBits bits of its
\* 52-bit fraction, most significant first, e |-> its binary exponent]: its
\* value is (1 + fraction / 2^52) * 2^e.
LimbBits == 13
FracLimbs == 4

RECURSIVE Pow2(_)
Pow2(n) == IF n = 0 THEN 1 ELSE 2 * Pow2(n - 1)

LimbBase == Pow2(LimbBits)

\* The exponent of k / d and k scaled into d <= r < 2 * d, for 1 <= k <= d.
RECURSIVE Normalize(_, _, _)
Normalize(r, d, e) ==
    IF r >= d THEN <<r, e>> ELSE Normalize(2 * r, d, e - 1)

\* The remainder of r / d (0 <= r < d) after i limbs of the quotient.
RECURSIVE DivRem(_, _, _)
DivRem(r, d, i) ==
    IF i = 0 THEN r ELSE (DivRem(r, d, i - 1) * LimbBase) % d

\* f + 1 for a fraction f: the limbs, and whether the sum carried out of them.
IncLimbs(f) ==
    [i \in 1..Len(f) |->
        IF \A j \in (i + 1)..Len(f) : f[j] = LimbBase - 1
        THEN (f[i] + 1) % LimbBase ELSE f[i]]

AllOnes(f) == \A j \in 1..Len(f) : f[j] = LimbBase - 1

\* Round to nearest, ties to even: the fraction f at exponent e, with the
\* first bit beyond it (guard) and whether anything non-zero follows (sticky).
RoundNearestEven(f, e, guard, sticky) ==
    LET up == guard = 1 /\ (sticky \/ f[Len(f)] % 2 = 1)
    IN  IF ~up THEN [f |-> f, e |-> e]
        ELSE IF AllOnes(f) THEN [f |-> IncLimbs(f), e |-> e + 1]
        ELSE [f |-> IncLimbs(f), e |-> e]

\* k / d for ints 1 <= k <= d: Python's true division, correctly rounded.
TrueDiv(k, d) ==
    LET n == Normalize(k, d, 0)
        r0 == n[1] - d
        f == [i \in 1..FracLimbs |-> (DivRem(r0, d, i - 1) * LimbBase) \div d]
        r == DivRem(r0, d, FracLimbs)
        guard == IF 2 * r >= d THEN 1 ELSE 0
    IN  RoundNearestEven(f, n[2], guard, 2 * r - guard * d # 0)

\* The carry into limb i of f * c from the limbs to its right.
RECURSIVE MulCarry(_, _, _)
MulCarry(f, c, i) ==
    IF i = Len(f) THEN 0
    ELSE (f[i + 1] * c + MulCarry(f, c, i + 1)) \div LimbBase

\* The number of bits of n >= 1.
RECURSIVE BitLen(_)
BitLen(n) == IF n <= 1 THEN 1 ELSE 1 + BitLen(n \div 2)

\* x * c for a double x and an int 1 <= c < LimbBase (exact as a double):
\* the exact product (h, then the limbs p), cut to 53 bits and rounded.
FloatMulInt(x, c) ==
    LET p == [i \in 1..Len(x.f) |-> (x.f[i] * c + MulCarry(x.f, c, i)) % LimbBase]
        h == c + MulCarry(x.f, c, 0)
        t == BitLen(h) - 1
        above == [i \in 1..Len(p) |-> IF i = 1 THEN h ELSE p[i - 1]]
        f == [i \in 1..Len(p) |->
                (above[i] % Pow2(t)) * Pow2(LimbBits - t) + p[i] \div Pow2(t)]
        lost == p[Len(p)] % Pow2(t)
        guard == IF t = 0 THEN 0 ELSE lost \div Pow2(t - 1)
        sticky == t > 0 /\ lost % Pow2(t - 1) # 0
    IN  RoundNearestEven(f, x.e + t, guard, sticky)

\* int(x) for a positive double x < 2^LimbBits: what lies left of the point.
FloatToInt(x) ==
    IF x.e < 0 THEN 0 ELSE Pow2(x.e) + x.f[1] \div Pow2(LimbBits - x.e)

\* A faulty variant: the percentage rounded to the nearest integer instead of cut.
RoundedProgress(index, total_files) ==
    (200 * (index + 1) + total_files) \div (2 * total_files)

\* progress = int((index + 1) / total_files * 100)
Progress(index, total_files) ==
    FloatToInt(FloatMulInt(TrueDiv(index + 1, total_files), 100))

\* ------------------------------------------------------------------ state
VARIABLES
    osname,        \* the platform: decides os.sep and os.path.join
    tree,          \* the files below the chosen directory, in os.walk order
    threads,       \* every UploadWorker constructed so far, oldest first
    worker,        \* UploadApp.worker: an index into threads, 0 for None
    file_path,     \* UploadApp.file_path ('' is <<>>)
    label,         \* the directory shown by UploadApp.label
    inputs,        \* the texts of gitlab_url_input, token_input, project_id_input
    settings,      \* UploadApp.gitlab_url, .token, .project_id
    config,        \* CONFIG_FILE: <<>> when absent, else <<the saved record>>
    log_area,      \* the lines of UploadApp.log_area
    progress_bar,  \* UploadApp.progress_bar's value
    posted,        \* signal deliveries queued for the GUI thread, oldest first
    dialogs        \* how often the directory dialog has been opened

vars == <<osname, tree, threads, worker, file_path, label, inputs, settings,
          config, log_area, progress_bar, posted, dialogs>>

appVars == <<worker, file_path, label, inputs, settings, config, log_area,
             progress_bar, dialogs>>

\* ----------------------------------------------------------------- events
\* One entry of a thread's trace: a signal emitted (ch "log" or "progress"),
\* a GitLab call (ch "api") or a file read (ch "fs").  arg is the 1-based
\* number of the file concerned (0 when none), the file count for the
\* "Total" line, or the percentage of a progress signal.
Event(ch, msg, tag, arg, path) ==
    [ch |-> ch, msg |-> msg, tag |-> tag, arg |-> arg, path |-> path]

LogPlain(msg, arg, path) == Event("log", msg, "plain", arg, path)
LogError(msg, arg) == Event("log", msg, "error", arg, <<>>)
LogSuccess(msg) == Event("log", msg, "success", 0, <<>>)
ProgressEv(p) == Event("progress", "", "", p, <<>>)
ApiCall(msg, res, arg, path) == Event("api", msg, res, arg, path)
FsRead(res, arg, path) == Event("fs", "read", res, arg, path)

IsSignal(ev) == ev.ch \in {"log", "progress"}

\* What the two remote calls and open() can do.
GetResults == {"ok", "GitlabGetError", "OtherError"}
CreateResults == {"ok", "GitlabCreateError", "OtherError"}
ReadResults == {"ok", "OSError"}

\* ----------------------------------------------------------- UploadWorker
\* UploadWorker.__init__: the thread object, not yet started.
NewWorker(root, connected) ==
    [pc |-> "get_project",
     file_path |-> root,
     files_to_upload |-> <<>>,
     total_files |-> 0,
     index |-> 0,
     parsed_file_path |-> <<>>,
     trace |-> <<>>,
     connected |-> connected,
     terminate |-> FALSE]

Running(t) == t.pc \notin {"done", "terminated"}

\* The thread w does evs in order (calls and signal emissions) and moves to
\* pc; the signals of a connected worker are queued for the GUI thread.
Signals(w, evs) ==
    LET sig == SelectSeq(evs, IsSignal)
    IN  [i \in 1..Len(sig) |-> [w |-> w, ev |-> sig[i]]]

Step(w, evs, upd) ==
    /\ threads' = [threads EXCEPT ![w] =
                      [upd EXCEPT !.trace = threads[w].trace \o evs]]
    /\ posted' = IF threads[w].connected THEN posted \o Signals(w, evs) ELSE posted
    /\ UNCHANGED <<osname, tree>>
    /\ UNCHANGED appVars

\* except Exception as e: the outer handler's line.
ExceptionLog == LogError("Exception", 0)

\* A faulty variant: the return after the invalid-project line is missing.
GetProjectNextNoReturn(res) == IF res = "OtherError" THEN "done" ELSE "walk"

\* Where run goes after gl.projects.get.
GetProjectNext(res) == IF res = "ok" THEN "walk" ELSE "done"

\* What run emits after gl.projects.get.
GetProjectLogs(res) ==
    IF res = "ok" THEN <<>>
    ELSE IF res = "GitlabGetError" THEN <<LogError("BadProject", 0)>>
    ELSE <<ExceptionLog>>

\* gl = gitlab.Gitlab(...); project = gl.projects.get(self.project_id)
GetProject(w) ==
    /\ w \in DOMAIN threads
    /\ threads[w].pc = "get_project"
    /\ \E res \in GetResults :
          Step(w, <<ApiCall("get", res, 0, <<>>)>> \o GetProjectLogs(res),
               [threads[w] EXCEPT !.pc = GetProjectNext(res)])

\* A faulty variant: the line announcing the count is dropped when nothing is found.
WalkLogsOnlyVerdict(total) ==
    IF total = 0 THEN <<LogError("NoFiles", 0)>>
    ELSE <<LogPlain("Counting", 0, <<>>), LogPlain("Total", total, <<>>)>>

\* What run emits around the os.walk loop.
WalkLogs(total) ==
    <<LogPlain("Counting", 0, <<>>)>> \o
    (IF total = 0 THEN <<LogError("NoFiles", 0)>>
     ELSE <<LogPlain("Total", total, <<>>)>>)

\* The os.walk loop, total_files and the return on an empty list.
Walk(w) ==
    /\ w \in DOMAIN threads
    /\ threads[w].pc = "walk"
    /\ LET files == WalkFiles(osname, threads[w].file_path, tree)
           total == Len(files)
       IN  Step(w, WalkLogs(total),
                [threads[w] EXCEPT !.files_to_upload = files,
                                   !.total_files = total,
                                   !.index = 0,
                                   !.pc = IF total = 0 THEN "done" ELSE "read"])

\* with open(file_full_path, 'rb') as f: content = f.read(); b64encode
ReadFile(w) ==
    /\ w \in DOMAIN threads
    /\ threads[w].pc = "read"
    /\ LET t == threads[w]
           full == t.files_to_upload[t.index + 1]
       IN  \E res \in ReadResults :
              IF res = "ok"
              THEN Step(w, <<FsRead(res, t.index + 1, full)>>,
                        [t EXCEPT !.pc = "log_upload"])
              ELSE Step(w, <<FsRead(res, t.index + 1, full), ExceptionLog>>,
                        [t EXCEPT !.pc = "done"])

\* parsed_file_path = ...; self.log_signal.emit(f"上传 {parsed_file_path}...")
LogUpload(w) ==
    /\ w \in DOMAIN threads
    /\ threads[w].pc = "log_upload"
    /\ LET t == threads[w]
           parsed == ParsedFilePath(t.files_to_upload[t.index + 1], t.file_path)
       IN  Step(w, <<LogPlain("Uploading", t.index + 1, parsed)>>,
                [t EXCEPT !.parsed_file_path = parsed, !.pc = "create"])

\* Where run goes after project.files.create: GitlabCreateError is caught
\* inside the loop, anything else by the outer handler.
CreateNext(res) == IF res = "OtherError" THEN "done" ELSE "progress"

\* What run emits after project.files.create.
CreateLogs(res, n) ==
    IF res = "ok" THEN <<>>
    ELSE IF res = "GitlabCreateError" THEN <<LogError("UploadError", n)>>
    ELSE <<ExceptionLog>>

\* project.files.create({...}) and its except GitlabCreateError
CreateFile(w) ==
    /\ w \in DOMAIN threads
    /\ threads[w].pc = "create"
    /\ LET t == threads[w]
       IN  \E res \in CreateResults :
              Step(w, <<ApiCall("create", res, t.index + 1, t.parsed_file_path)>>
                        \o CreateLogs(res, t.index + 1),
                   [t EXCEPT !.pc = CreateNext(res)])

\* A faulty variant: the loop does not move on to the next file.
NextIndexStuck(index) == index

\* enumerate(files_to_upload): the index of the next round.
NextIndex(index) == index + 1

\* progress = int(...); self.progress_signal.emit(progress); next round
EmitProgress(w) ==
    /\ w \in DOMAIN threads
    /\ threads[w].pc = "progress"
    /\ LET t == threads[w]
       IN  Step(w, <<ProgressEv(Progress(t.index, t.total_files))>>,
                [t EXCEPT !.index = NextIndex(t.index),
                          !.pc = IF t.index + 1 < t.total_files
                                 THEN "read" ELSE "finish"])

\* A faulty variant: the closing line is sent twice.
FinishLogsTwice == <<LogSuccess("AllDone"), LogSuccess("AllDone")>>

\* What run emits after the loop.
FinishLogs == <<LogSuccess("AllDone")>>

\* self.log_signal.emit("所有文件上传完成！")
Finish(w) ==
    /\ w \in DOMAIN threads
    /\ threads[w].pc = "finish"
    /\ Step(w, FinishLogs, [threads[w] EXCEPT !.pc = "done"])

\* --------------------------------------------------------------- sessions
\* A worker on its own: constructed for a chosen directory and started, with
\* no slot connected to its signals.
Init ==
    /\ osname \in OsNames
    /\ tree \in Trees(MaxFiles)
    /\ \E root \in Roots(osname) : threads = <<NewWorker(root, FALSE)>>
    /\ worker = 0
    /\ file_path = <<>>
    /\ label = <<>>
    /\ inputs = [gitlab_url |-> "", token |-> "", project_id |-> ""]
    /\ settings = [gitlab_url |-> "", token |-> "", project_id |-> ""]
    /\ config = <<>>
    /\ log_area = <<>>
    /\ progress_bar = 0
    /\ posted = <<>>
    /\ dialogs = 0

\* One step of UploadWorker.run in some thread.
Next ==
    \/ \E w \in DOMAIN threads : GetProject(w)
    \/ \E w \in DOMAIN threads : Walk(w)
    \/ \E w \in DOMAIN threads : ReadFile(w)
    \/ \E w \in DOMAIN threads : LogUpload(w)
    \/ \E w \in DOMAIN threads : CreateFile(w)
    \/ \E w \in DOMAIN threads : EmitProgress(w)
    \/ \E w \in DOMAIN threads : Finish(w)

Spec == Init /\ [][Next]_vars

\* -------------------------------------------------------------- UploadApp
\* What the user may have typed into an input field.
Texts == {"", "x"}

\* UploadApp.log(message): a line appended by the GUI thread itself (w = 0)
\* or for a signal of worker w.
Line(w, msg) == [w |-> w, msg |-> msg]

\* UploadApp.__init__: no worker, nothing chosen, no settings saved.
InitApp ==
    /\ osname \in OsNames
    /\ tree \in Trees(MaxFilesApp)
    /\ threads = <<>>
    /\ worker = 0
    /\ file_path = <<>>
    /\ label = <<>>
    /\ inputs \in [{"gitlab_url", "token", "project_id"} -> Texts]
    /\ settings = [gitlab_url |-> "", token |-> "", project_id |-> ""]
    /\ config = <<>>
    /\ log_area = <<>>
    /\ progress_bar = 0
    /\ posted = <<>>
    /\ dialogs = 0

\* UploadApp.select_directory: the dialog returns a directory, or '' when
\* it is cancelled.
select_directory ==
    /\ dialogs < MaxDialogs
    /\ dialogs' = dialogs + 1
    /\ \E dir \in Roots(osname) \cup {<<>>} :
          /\ file_path' = dir
          /\ label' = IF Len(dir) > 0 THEN dir ELSE label
    /\ UNCHANGED <<osname, tree, threads, worker, inputs, settings, config,
                   log_area, progress_bar, posted>>

\* QThread.terminate() on thread w of ts: asks the operating system to end
\* the thread, which "may or may not be terminated immediately"; the caller
\* does not wait for it.
Terminate(ts, w) ==
    IF w # 0 /\ Running(ts[w]) THEN [ts EXCEPT ![w].terminate = TRUE] ELSE ts

\* UploadApp.upload_files.
upload_files ==
    /\ settings' = inputs
    /\ IF inputs.gitlab_url = "" \/ inputs.token = "" \/ inputs.project_id = ""
       THEN /\ log_area' = <<Line(0, "FillSettings")>>
            /\ UNCHANGED <<threads, worker, config, progress_bar>>
       ELSE IF Len(file_path) = 0
       THEN /\ log_area' = <<Line(0, "SelectDirectory")>>
            /\ UNCHANGED <<threads, worker, config, progress_bar>>
       ELSE /\ Len(threads) < MaxSessions
            /\ log_area' = <<Line(0, "Start")>>
            /\ progress_bar' = 0
            /\ config' = <<[token |-> inputs.token,
                            project_id |-> inputs.project_id]>>
            /\ threads' = Append(Terminate(threads, worker),
                                 NewWorker(file_path, TRUE))
            /\ worker' = Len(threads) + 1
    /\ UNCHANGED <<osname, tree, file_path, label, inputs, posted, dialogs>>

\* The GUI thread's event loop delivers the oldest queued signal to its
\* slot: UploadApp.log or progress_bar.setValue.
Deliver ==
    /\ Len(posted) > 0
    /\ posted' = Tail(posted)
    /\ IF Head(posted).ev.ch = "log"
       THEN /\ log_area' = Append(log_area, Line(Head(posted).w, Head(posted).ev.msg))
            /\ UNCHANGED progress_bar
       ELSE /\ progress_bar' = Head(posted).ev.arg
            /\ UNCHANGED log_area
    /\ UNCHANGED <<osname, tree, threads, worker, file_path, label, inputs,
                   settings, config, dialogs>>

\* The operating system ends a thread that terminate() was called on.
Terminated(w) ==
    /\ w \in DOMAIN threads
    /\ threads[w].terminate
    /\ Running(threads[w])
    /\ threads' = [threads EXCEPT ![w].pc = "terminated"]
    /\ UNCHANGED <<osname, tree, posted>>
    /\ UNCHANGED appVars

NextApp ==
    \/ select_directory
    \/ upload_files
    \/ Deliver
    \/ \E w \in DOMAIN threads : Terminated(w)
    \/ \E w \in DOMAIN threads : GetProject(w)
    \/ \E w \in DOMAIN threads : Walk(w)
    \/ \E w \in DOMAIN threads : ReadFile(w)
    \/ \E w \in DOMAIN threads : LogUpload(w)
    \/ \E w \in DOMAIN threads : CreateFile(w)
    \/ \E w \in DOMAIN threads : EmitProgress(w)
    \/ \E w \in DOMAIN threads : Finish(w)

SpecApp == InitApp /\ [][NextApp]_vars

\* ------------------------------------------------------- reading a trace
IsLog(ev) == ev.ch = "log"
IsErrorLog(ev) == ev.ch = "log" /\ ev.tag = "error"
IsFatalLog(ev) == ev.ch = "log" /\ ev.msg \in {"BadProject", "NoFiles", "Exception"}
IsUploadErrorLog(ev) == ev.ch = "log" /\ ev.msg = "UploadError"
IsUploadingLog(ev) == ev.ch = "log" /\ ev.msg = "Uploading"
IsSuccessLog(ev) == ev.ch = "log" /\ ev.tag = "success"
IsProgress(ev) == ev.ch = "progress"
IsCreate(ev) == ev.ch = "api" /\ ev.msg = "create"
IsRejectedCreate(ev) == IsCreate(ev) /\ ev.tag = "GitlabCreateError"
IsRead(ev) == ev.ch = "fs"
IsFailedRead(ev) == ev.ch = "fs" /\ ev.tag # "ok"

Trace(w) == threads[w].trace
Logs(w) == SelectSeq(Trace(w), IsLog)
Progresses(w) == SelectSeq(Trace(w), IsProgress)
Creates(w) == SelectSeq(Trace(w), IsCreate)
Reads(w) == SelectSeq(Trace(w), IsRead)
Before(w, p) == SubSeq(Trace(w), 1, p - 1)
Count(tr, Test(_)) == Len(SelectSeq(tr, Test))

\* run has returned in thread w.
Returned(w) == threads[w].pc = "done"
\* The project lookup of thread w succeeded.
ProjectFound(w) == Len(Trace(w)) > 0 /\ Trace(w)[1].tag = "ok"
\* The number of files thread w enumerated (0 until the walk is over).
N(w) == threads[w].total_files

\* The path of tree file i below the root, with forward slashes.
RECURSIVE SlashJoin(_)
SlashJoin(rel) ==
    IF Len(rel) = 1 THEN rel[1]
    ELSE rel[1] \o <<SLASH>> \o SlashJoin(Tail(rel))

\* ------------------------------------------------------------------- C1
\* C1 as claimed: the k-th progress value is 100k/N rounded to a nearest
\* integer, and a session that emitted all N of them ends on exactly 100.
C1_RoundedProgress ==
    \A w \in DOMAIN threads :
        /\ \A k \in 1..Len(Progresses(w)) :
              LET d == 100 * k - Progresses(w)[k].arg * N(w)
              IN  2 * d <= N(w) /\ -2 * d <= N(w)
        /\ Len(Progresses(w)) = N(w) /\ N(w) >= 1 => Progresses(w)[N(w)].arg = 100

\* C1 amended: the k-th progress value emitted is 100k/N cut to an integer
\* (floor), and a session that emitted all N of them ends on exactly 100.
C1_TruncatedProgress ==
    \A w \in DOMAIN threads :
        /\ \A k \in 1..Len(Progresses(w)) :
              Progresses(w)[k].arg = (100 * k) \div N(w)
        /\ Len(Progresses(w)) = N(w) /\ N(w) >= 1 => Progresses(w)[N(w)].arg = 100

\* C1, witness: a session of three files has emitted its three progress values.
C1_Witness ==
    \E w \in DOMAIN threads :
        /\ Returned(w) /\ N(w) = 3
        /\ Len(Progresses(w)) = 3
        /\ Progresses(w)[2].arg = 66

\* ------------------------------------------------------------------- C2
\* C2 as claimed: when reading file i has failed, the error is logged and
\* the files after i are still read.
C2_ReadFailureContinues ==
    \A w \in DOMAIN threads :
        \A p \in 1..Len(Trace(w)) :
            IsFailedRead(Trace(w)[p]) /\ Returned(w) =>
                /\ \E q \in (p + 1)..Len(Trace(w)) : IsErrorLog(Trace(w)[q])
                /\ \A j \in (Trace(w)[p].arg + 1)..N(w) :
                      \E q \in 1..Len(Trace(w)) :
                          IsRead(Trace(w)[q]) /\ Trace(w)[q].arg = j

\* ------------------------------------------------------------------- C3
\* C3 as claimed: in a session that has ended, when create-file was rejected
\* for file i, every later file was attempted, N progress values were
\* emitted and each rejection got one error line.
C3_RejectionContinues ==
    \A w \in DOMAIN threads :
        Returned(w) /\ Count(Trace(w), IsRejectedCreate) > 0 =>
            /\ \A p \in 1..Len(Trace(w)) :
                  IsRejectedCreate(Trace(w)[p]) =>
                      \A j \in (Trace(w)[p].arg + 1)..N(w) :
                          \E q \in 1..Len(Trace(w)) :
                              IsRead(Trace(w)[q]) /\ Trace(w)[q].arg = j
            /\ Len(Progresses(w)) = N(w)
            /\ Count(Trace(w), IsUploadErrorLog) = Count(Trace(w), IsRejectedCreate)

\* ------------------------------------------------------------------- C4
\* C4: once the remote has rejected the project lookup, run has returned
\* having made no create-file call, read no file, emitted no progress value
\* and emitted exactly one log line, error-tagged.
C4_BadProjectIsFatal ==
    \A w \in DOMAIN threads :
        Len(Trace(w)) > 0 /\ Trace(w)[1].tag = "GitlabGetError" =>
            /\ Returned(w)
            /\ Len(Creates(w)) = 0
            /\ Len(Reads(w)) = 0
            /\ Len(Progresses(w)) = 0
            /\ Len(Logs(w)) = 1
            /\ IsErrorLog(Logs(w)[1])

\* C4, witness: the remote has rejected the project lookup of a session
\* whose directory holds files.
C4_Witness ==
    \E w \in DOMAIN threads :
        /\ Len(Trace(w)) > 0 /\ Trace(w)[1].tag = "GitlabGetError"
        /\ Len(tree) > 0

\* ------------------------------------------------------------------- C6
\* C6 as claimed: progress values never decrease, lie in 0..100, 100 comes
\* only once all N files were attempted, and every attempt, failed or not,
\* is followed by its progress value.
C6_FailuresAdvanceProgress ==
    \A w \in DOMAIN threads :
        /\ \A k \in 1..Len(Progresses(w)) :
              /\ Progresses(w)[k].arg \in 0..100
              /\ k > 1 => Progresses(w)[k - 1].arg <= Progresses(w)[k].arg
        /\ \A p \in 1..Len(Trace(w)) :
              IsProgress(Trace(w)[p]) /\ Trace(w)[p].arg = 100 =>
                  Count(Before(w, p), IsCreate) = N(w)
        /\ Returned(w) => Len(Progresses(w)) = Len(Reads(w))

\* ------------------------------------------------------------------- C7
\* C7 as claimed: with no file below the root, a session that found its
\* project ends with no create-file call, no progress value and one log
\* line, the one saying that no files were found.
C7_OneLogLine ==
    \A w \in DOMAIN threads :
        Returned(w) /\ ProjectFound(w) /\ Len(tree) = 0 =>
            /\ Len(Creates(w)) = 0
            /\ Len(Progresses(w)) = 0
            /\ Len(Logs(w)) = 1
            /\ Logs(w)[1].msg = "NoFiles"

\* C7 amended: with no file below the root, a session that found its project
\* ends with no create-file call, no progress value and two log lines: the
\* plain line announcing the count, then the error line saying that no
\* files were found.
C7_TwoLogLines ==
    \A w \in DOMAIN threads :
        Returned(w) /\ ProjectFound(w) /\ Len(tree) = 0 =>
            /\ Len(Creates(w)) = 0
            /\ Len(Reads(w)) = 0
            /\ Len(Progresses(w)) = 0
            /\ Len(Logs(w)) = 2
            /\ Logs(w)[1].msg = "Counting" /\ Logs(w)[1].tag = "plain"
            /\ Logs(w)[2].msg = "NoFiles" /\ Logs(w)[2].tag = "error"

\* C7, witness: a session over an empty directory has ended after finding its project.
C7_Witness ==
    \E w \in DOMAIN threads :
        Returned(w) /\ ProjectFound(w) /\ Len(tree) = 0

\* ------------------------------------------------------------------- C8
\* C8 as claimed: the path given to create-file is the file's path below
\* the root with forward slashes: nothing of it is lost, it does not start
\* with a separator and holds no backslash.
C8_RelativePath ==
    \A w \in DOMAIN threads :
        \A p \in 1..Len(Trace(w)) :
            IsCreate(Trace(w)[p]) =>
                LET path == Trace(w)[p].path
                IN  /\ path = SlashJoin(tree[Trace(w)[p].arg])
                    /\ path[1] \notin {SLASH, BSL}
                    /\ \A i \in 1..Len(path) : path[i] # BSL

\* ------------------------------------------------------------------- C9
\* C9: files are handled one after the other in enumeration order: the
\* i-th read, the i-th "uploading" line and the i-th create-file call are
\* for file i and come after exactly i - 1 progress values, the call
\* follows its own "uploading" line, and each progress value follows the
\* one call it reports.
C9_Sequential ==
    \A w \in DOMAIN threads :
        \A p \in 1..Len(Trace(w)) :
            LET ev == Trace(w)[p]
                done == Count(Before(w, p), IsProgress)
            IN  /\ IsRead(ev) =>
                    /\ ev.arg = Count(Before(w, p), IsRead) + 1
                    /\ ev.arg = done + 1
                    /\ ev.path = threads[w].files_to_upload[ev.arg]
                /\ IsUploadingLog(ev) =>
                    /\ ev.arg = Count(Before(w, p), IsUploadingLog) + 1
                    /\ ev.arg = done + 1
                    /\ Count(Before(w, p), IsRead) = ev.arg
                /\ IsCreate(ev) =>
                    /\ ev.arg = Count(Before(w, p), IsCreate) + 1
                    /\ ev.arg = done + 1
                    /\ ev.arg <= N(w)
                    /\ IsUploadingLog(Trace(w)[p - 1])
                    /\ Trace(w)[p - 1].arg = ev.arg
                    /\ Trace(w)[p - 1].path = ev.path
                /\ IsProgress(ev) =>
                    /\ Count(Before(w, p), IsCreate) = done + 1
                    /\ ev.arg = Progress(done, N(w))

\* C9, witness: a session of three files has ended with the second file rejected.
C9_Witness ==
    \E w \in DOMAIN threads :
        /\ Returned(w) /\ N(w) = 3
        /\ Len(Creates(w)) = 3 /\ Len(Progresses(w)) = 3
        /\ Creates(w)[2].tag = "GitlabCreateError"

\* ------------------------------------------------------------------ C10
\* C10: the success line is emitted at most once, as the last event of a
\* session whose N >= 1 files were all attempted and reported, never beside
\* a fatal error line; and a session that has ended without a fatal error
\* line, whatever was rejected, has emitted it.
C10_SuccessLine ==
    \A w \in DOMAIN threads :
        /\ Count(Trace(w), IsSuccessLog) <= 1
        /\ \A p \in 1..Len(Trace(w)) :
              IsSuccessLog(Trace(w)[p]) =>
                  /\ p = Len(Trace(w))
                  /\ Returned(w)
                  /\ N(w) >= 1
                  /\ Len(Creates(w)) = N(w)
                  /\ Len(Progresses(w)) = N(w)
                  /\ Count(Trace(w), IsFatalLog) = 0
        /\ Returned(w) /\ Count(Trace(w), IsFatalLog) = 0 =>
              Count(Trace(w), IsSuccessLog) = 1

\* C10, witness: a session has ended on the success line although a file was rejected.
C10_Witness ==
    \E w \in DOMAIN threads :
        /\ Returned(w)
        /\ Count(Trace(w), IsSuccessLog) = 1
        /\ Count(Trace(w), IsRejectedCreate) > 0
        /\ Count(Trace(w), IsUploadErrorLog) > 0

\* ------------------------------------------------------------------- C5
\* C5 as claimed: a worker that upload_files has replaced has terminated by
\* the time the new one is started: never more than one worker runs, and
\* no signal of a replaced worker is still to be delivered to the window.
C5_OneWorkerAtATime ==
    /\ Cardinality({w \in DOMAIN threads : Running(threads[w])}) <= 1
    /\ \A i \in 1..Len(posted) : posted[i].w = worker
====
